---- MODULE Spec2Model ----
(***************************************************************************)
(* Request pipeline of the Alaska Snow Department agent:                   *)
(* AlaskaSnowAgent.process_user_request (app/core_engine.py) driving       *)
(* SafetyValidator.validate_prompt_safety (app/safety_validator.py) and    *)
(* ResponseGenerator.generate_assistant_response                           *)
(* (app/response_generator.py).                                            *)
(*                                                                         *)
(* A text is a sequence of tokens; the token " " is whitespace, every      *)
(* other token is a run of non-whitespace characters.  None is the empty   *)
(* option <<>> and Some(t) the one-element option <<t>>.                   *)
(***************************************************************************)
EXTENDS Integers, Sequences, FiniteSets, TLC

\* ------------------------------------------------------------------ bounds
MaxRequests == 2
MaxAddr == 2

\* ------------------------------------------------------- program constants
TOP_K_RESULTS == 3
SIMILARITY_THRESHOLD == 70

\* -------------------------------------------------------------------- text
Sp == " "

NL == "\n"

\* str.isspace() on one token
IsSpace(w) == w \in {Sp, NL}

None == <<>>

Some(t) == <<t>>

RECURSIVE Words(_)
\* the words of a literal joined by single spaces
Words(ws) ==
    IF Len(ws) = 0 THEN <<>>
    ELSE IF Len(ws) = 1 THEN <<ws[1]>>
    ELSE <<ws[1], Sp>> \o Words(Tail(ws))

RECURSIVE LStrip(_)
LStrip(t) == IF t # <<>> /\ IsSpace(Head(t)) THEN LStrip(Tail(t)) ELSE t

RECURSIVE RStrip(_)
RStrip(t) ==
    IF t # <<>> /\ IsSpace(t[Len(t)]) THEN RStrip(SubSeq(t, 1, Len(t) - 1)) ELSE t

\* str.strip()
Strip(t) == RStrip(LStrip(t))

\* str.upper() on one token
UpperTok(w) ==
    CASE w \in {"safe", "Safe", "SAFE"} -> "SAFE"
      [] w \in {"unsafe", "Unsafe", "UNSAFE"} -> "UNSAFE"
      [] w \in {"maybe", "MAYBE"} -> "MAYBE"
      [] OTHER -> w

\* str.upper()
Upper(t) == [i \in 1..Len(t) |-> UpperTok(t[i])]

\* Python truthiness of a str
Truthy(t) == t # <<>>

\* the empty check without `not prompt.strip()`
IsBlank_NoStrip(t) == ~Truthy(t)

\* `not prompt or not prompt.strip()`
IsBlank(t) == ~Truthy(t) \/ ~Truthy(Strip(t))

\* needle occurs in hay as a contiguous run of tokens (Python `in` on str)
Contains(hay, needle) ==
    \E i \in 0..(Len(hay) - Len(needle)) :
        \A j \in 1..Len(needle) : hay[i + j] = needle[j]

\* -------------------------------------------------------------- exceptions
ExcBase ==
    [SafetyValidationError |-> "AlaskaAgentException",
     RAGRetrievalError |-> "AlaskaAgentException",
     ResponseGenerationError |-> "AlaskaAgentException",
     BigQueryConnectionError |-> "AlaskaAgentException",
     AlaskaAgentException |-> "Exception",
     ValueError |-> "Exception",
     AttributeError |-> "Exception",
     NameError |-> "Exception",
     Exception |-> "BaseException"]

RECURSIVE IsInstance(_, _)
\* isinstance(e, cls) on the class names
IsInstance(ty, cls) ==
    IF ty = cls THEN TRUE
    ELSE IF ty \in DOMAIN ExcBase THEN IsInstance(ExcBase[ty], cls)
    ELSE FALSE

Exc(ty, msg) == [type |-> ty, msg |-> msg]

\* str(e)
Str(e) == e.msg

NoExc == [type |-> "NoExc", msg |-> <<>>]

\* ------------------------------------------------------------- input space
\* exception classes a collaborator can raise
RaisedTypes ==
    {"Exception", "ValueError", "SafetyValidationError", "RAGRetrievalError",
     "ResponseGenerationError", "BigQueryConnectionError"}

RaisedMsgs == {Words(<<"Model", "error">>), Words(<<"Test", "error">>)}

Raisable == {Exc(ty, m) : ty \in RaisedTypes, m \in RaisedMsgs}

Prompts ==
    {<<>>, <<Sp, Sp>>,
     Words(<<"Test", "prompt">>),
     Words(<<"What", "about", "unplowed", "roads?">>)}

Labels ==
    {<<"SAFE">>, <<"UNSAFE">>, <<"MAYBE">>, <<Sp, "safe", Sp>>,
     Words(<<"SAFE", "UNSAFE">>), <<>>}

Answers ==
    {<<>>, <<Sp>>,
     Words(<<"Contact", "your", "regional", "office.">>),
     <<Sp>> \o Words(<<"Check", "the", "plow", "schedule.">>) \o <<Sp>>}

\* rows of the embedded FAQ table with their distance to the query (x100)
FaqRows ==
    {[question |-> Words(<<"Who", "plows?">>),
      answer |-> Words(<<"The", "department.">>), distance |-> 10],
     [question |-> Words(<<"Office", "hours?">>),
      answer |-> Words(<<"Nine", "to", "five.">>), distance |-> 40],
     [question |-> Words(<<"Permit", "fees?">>),
      answer |-> Words(<<"See", "the", "website.">>), distance |-> 90]}

\* the response object of the generation call: None, or Some(its .text)
Responses == {None} \cup {Some(a) : a \in Answers}

RECURSIVE ByDistance(_)
\* ORDER BY result.distance ASC
ByDistance(rows) ==
    IF rows = {} THEN <<>>
    ELSE LET r == CHOOSE x \in rows : \A y \in rows : x.distance <= y.distance
         IN <<r>> \o ByDistance(rows \ {r})

\* what the VECTOR_SEARCH query can return: at most top_k rows within the
\* distance bound, closest first
StoreResults ==
    {ByDistance(rows) :
        rows \in {S \in SUBSET {r \in FaqRows : r.distance <= SIMILARITY_THRESHOLD} :
                    Cardinality(S) <= TOP_K_RESULTS}}

\* ------------------------------------------------------------------- state
VARIABLES
    pc,          \* where the request is: idle, gate, classify, generator,
                 \* retrieve, generate, done, raised
    served,      \* requests accepted so far
    gateDouble,  \* validate_prompt_safety is patched by a test double
    genDouble,   \* generate_assistant_response is patched by a test double
    result,      \* the result dictionary of the request
    gateRet,     \* how the gate ended: "none", "true", "false", "raised"
    exc,         \* the exception that reached the except clauses, or NoExc
    fault,       \* the exception a collaborator raised, or NoExc
    calls,       \* outbound calls issued for the request, in order
    context_df,  \* rows returned by the context store
    prompt,      \* prompt handed to the generation call
    answer,      \* what the generation call (or the patched generator) returned
    log,         \* per returned result: request_id, outcome, safety_passed
    label,       \* what the classification call returned, or None
    health,      \* the health_check in progress and its last report
    ev           \* the last call of an evaluator or metrics function

vars ==
    <<pc, served, gateDouble, genDouble, result, gateRet, exc, fault, calls,
      context_df, prompt, answer, log, label, health, ev>>

\* ------------------------------------------------------------ core_engine
default_error_message ==
    Words(<<"I", "apologize,", "but", "I'm", "experiencing", "technical",
            "difficulties.", "Please", "contact", "the", "Alaska", "Snow",
            "Department", "directly", "for", "assistance.">>)

safety_blocked_message ==
    Words(<<"I'm", "sorry,", "but", "your", "message", "was", "flagged", "by",
            "our", "safety", "filters.", "Please", "rephrase", "your",
            "question", "and", "try", "again.">>)

InitialResult(addr, text) ==
    [request_id |-> addr,
     user_input |-> text,
     response |-> <<>>,
     success |-> FALSE,
     error |-> None,
     safety_passed |-> FALSE,
     context_retrieved |-> FALSE]

\* the rejection answered with the technical-difficulty message
BlockedResult_WrongMessage(res) ==
    [res EXCEPT !.response = default_error_message,
                !.error = Some(Words(<<"Safety", "validation", "failed">>))]


BlockedResult(res) ==
    [res EXCEPT !.response = safety_blocked_message,
                !.error = Some(Words(<<"Safety", "validation", "failed">>))]

\* line 62 left out: safety_passed is never raised
SafetyPassed_Skipped(res) == res


SafetyPassed(res) == [res EXCEPT !.safety_passed = TRUE]

\* the success path forgetting to set context_retrieved
SuccessResult_NoContextFlag(res, response) ==
    [res EXCEPT !.response = response,
                !.success = TRUE]


SuccessResult(res, response) ==
    [res EXCEPT !.response = response,
                !.context_retrieved = TRUE,
                !.success = TRUE]

\* process_user_request without its last clause, `except Exception`
ExceptClause_NoCatchAll(e) ==
    IF IsInstance(e.type, "SafetyValidationError") THEN "safety"
    ELSE IF IsInstance(e.type, "RAGRetrievalError")
            \/ IsInstance(e.type, "ResponseGenerationError") THEN "processing"
    ELSE "none"

\* the except clause of process_user_request that catches e
ExceptClause(e) ==
    IF IsInstance(e.type, "SafetyValidationError") THEN "safety"
    ELSE IF IsInstance(e.type, "RAGRetrievalError")
            \/ IsInstance(e.type, "ResponseGenerationError") THEN "processing"
    ELSE IF IsInstance(e.type, "Exception") THEN "unexpected"
    ELSE "none"

\* the SafetyValidationError clause answering like the other clauses
HandleException_SafetyAsGeneric(res, e) ==
    CASE ExceptClause(e) = "safety" ->
            [res EXCEPT !.response = default_error_message,
                        !.error = Some(Str(e))]
      [] ExceptClause(e) = "processing" ->
            [res EXCEPT !.response = default_error_message,
                        !.error = Some(Str(e))]
      [] ExceptClause(e) = "unexpected" ->
            [res EXCEPT !.response = default_error_message,
                        !.error = Some(<<"Unexpected", Sp, "error:", Sp>> \o Str(e))]
      [] OTHER -> res

\* the except clauses showing the exception text to the user
HandleException_Leaky(res, e) ==
    CASE ExceptClause(e) = "safety" ->
            [res EXCEPT !.response = safety_blocked_message,
                        !.error = Some(Str(e))]
      [] ExceptClause(e) = "processing" ->
            [res EXCEPT !.response = default_error_message \o <<Sp>> \o Str(e),
                        !.error = Some(Str(e))]
      [] ExceptClause(e) = "unexpected" ->
            [res EXCEPT !.response = default_error_message \o <<Sp>> \o Str(e),
                        !.error = Some(<<"Unexpected", Sp, "error:", Sp>> \o Str(e))]
      [] OTHER -> res

\* the processing clause recording that retrieval had succeeded when only
\* the generation failed
HandleException_ContextOnGenerationFault(res, e) ==
    CASE ExceptClause(e) = "safety" ->
            [res EXCEPT !.response = safety_blocked_message,
                        !.error = Some(Str(e))]
      [] ExceptClause(e) = "processing" ->
            [res EXCEPT !.response = default_error_message,
                        !.error = Some(Str(e)),
                        !.context_retrieved =
                            IsInstance(e.type, "ResponseGenerationError")]
      [] ExceptClause(e) = "unexpected" ->
            [res EXCEPT !.response = default_error_message,
                        !.error = Some(<<"Unexpected", Sp, "error:", Sp>> \o Str(e))]
      [] OTHER -> res

\* the processing clause resetting safety_passed
HandleException_ResetsSafety(res, e) ==
    CASE ExceptClause(e) = "safety" ->
            [res EXCEPT !.response = safety_blocked_message,
                        !.error = Some(Str(e))]
      [] ExceptClause(e) = "processing" ->
            [res EXCEPT !.response = default_error_message,
                        !.error = Some(Str(e)),
                        !.safety_passed = FALSE]
      [] ExceptClause(e) = "unexpected" ->
            [res EXCEPT !.response = default_error_message,
                        !.error = Some(<<"Unexpected", Sp, "error:", Sp>> \o Str(e))]
      [] OTHER -> res


HandleException(res, e) ==
    CASE ExceptClause(e) = "safety" ->
            [res EXCEPT !.response = safety_blocked_message,
                        !.error = Some(Str(e))]
      [] ExceptClause(e) = "processing" ->
            [res EXCEPT !.response = default_error_message,
                        !.error = Some(Str(e))]
      [] ExceptClause(e) = "unexpected" ->
            [res EXCEPT !.response = default_error_message,
                        !.error = Some(<<"Unexpected", Sp, "error:", Sp>> \o Str(e))]
      [] OTHER -> res

\* the verdict taken from a prefix test, classification.startswith("SAFE")
Verdict_Prefix(text) ==
    LET classification == Upper(Strip(text))
    IN classification # <<>> /\ classification[1] = "SAFE"

\* ------------------------------------------------------- safety_validator
\* the verdict for the text returned by the classification call
Verdict(text) ==
    LET classification == Upper(Strip(text))
    IN IF classification = <<"SAFE">> THEN TRUE
       ELSE IF classification = <<"UNSAFE">> THEN FALSE
       ELSE FALSE

\* except Exception as e: raise SafetyValidationError(...)
SafetyFault(e) ==
    Exc("SafetyValidationError",
        <<"Safety", Sp, "validation", Sp, "error:", Sp>> \o Str(e))

\* ----------------------------------------------------- response_generator
\* except Exception as e: raise RAGRetrievalError(...)
RetrievalFault(e) ==
    Exc("RAGRetrievalError",
        <<"Failed", Sp, "to", Sp, "retrieve", Sp, "context:", Sp>> \o Str(e))

\* generate_assistant_response without `except RAGRetrievalError: raise`
GenerationFault_WrapsAll(e) ==
    Exc("ResponseGenerationError",
        <<"Failed", Sp, "to", Sp, "generate", Sp, "response:", Sp>> \o Str(e))

\* the except clauses of generate_assistant_response
GenerationFault(e) ==
    IF IsInstance(e.type, "RAGRetrievalError") THEN e
    ELSE Exc("ResponseGenerationError",
             <<"Failed", Sp, "to", Sp, "generate", Sp, "response:", Sp>> \o Str(e))

EmptyResponse ==
    Exc("ResponseGenerationError",
        Words(<<"Model", "returned", "empty", "response">>))

\* `not response or not response.text`
IsEmptyResponse(resp) == resp = None \/ ~Truthy(resp[1])

RECURSIVE ContextSections_Reversed(_)
\* the Q:/A: blocks emitted last row first
ContextSections_Reversed(df) ==
    IF Len(df) = 0 THEN <<>>
    ELSE LET last == df[Len(df)]
             block == <<"Q:", Sp>> \o last.question \o <<NL, "A:", Sp>> \o last.answer
         IN IF Len(df) = 1 THEN block
            ELSE block \o <<NL, NL>>
                 \o ContextSections_Reversed(SubSeq(df, 1, Len(df) - 1))

RECURSIVE ContextSections(_)
\* the Q:/A: blocks joined by a blank line
ContextSections(df) ==
    IF Len(df) = 0 THEN <<>>
    ELSE LET block == <<"Q:", Sp>> \o df[1].question \o <<NL, "A:", Sp>> \o df[1].answer
         IN IF Len(df) = 1 THEN block
            ELSE block \o <<NL, NL>> \o ContextSections(Tail(df))

build_context_prompt(user_input, df) ==
    IF Len(df) = 0
    THEN Words(<<"No", "specific", "FAQ", "information", "found", "for", "this",
                 "query.", "User", "question:">>) \o <<Sp>> \o user_input
         \o <<NL, NL>>
         \o Words(<<"Please", "provide", "a", "helpful", "response", "directing",
                    "them", "to", "contact", "the", "Alaska", "Snow",
                    "Department", "directly.">>)
    ELSE Words(<<"Based", "on", "the", "following", "Alaska", "Snow",
                 "Department", "FAQ", "information,", "please", "answer", "the",
                 "user's", "question:">>)
         \o <<NL, NL, "===", Sp, "CONTEXT", Sp, "===", NL>>
         \o ContextSections(df)
         \o <<NL, NL, "===", Sp, "USER", Sp, "QUESTION", Sp, "===", NL>>
         \o user_input
         \o <<NL, NL>>
         \o Words(<<"Please", "provide", "a", "helpful,", "accurate", "response",
                    "based", "on", "the", "context", "above.">>)

\* ----------------------------------------------------------------- actions
\* no health_check has run
HealthIdle == [pc |-> "idle", status |-> None, calls |-> <<>>]

\* no evaluator or metrics function has been called
EvIdle == [op |-> "none"]

Init ==
    /\ pc = "idle"
    /\ served = 0
    /\ gateDouble = FALSE
    /\ genDouble = FALSE
    /\ result = InitialResult(1, <<>>)
    /\ gateRet = "none"
    /\ exc = NoExc
    /\ fault = NoExc
    /\ calls = <<>>
    /\ context_df = <<>>
    /\ prompt = <<>>
    /\ answer = None
    /\ log = <<>>
    /\ label = None
    /\ health = HealthIdle
    /\ ev = EvIdle

\* process_user_request is entered: the result dictionary is built and
\* validate_prompt_safety is called (core_engine.py lines 41-56)
ProcessRequest(addr, text, gd, nd) ==
    /\ pc = "idle"
    /\ served < MaxRequests
    /\ served' = served + 1
    /\ gateDouble' = gd
    /\ genDouble' = nd
    /\ result' = InitialResult(addr, text)
    /\ gateRet' = "none"
    /\ exc' = NoExc
    /\ fault' = NoExc
    /\ calls' = <<>>
    /\ context_df' = <<>>
    /\ prompt' = <<>>
    /\ answer' = None
    /\ log' = log
    /\ label' = None
    /\ pc' = "gate"
    /\ UNCHANGED <<health, ev>>

\* an exception reaches the except clauses of process_user_request
Caught(e) ==
    /\ exc' = e
    /\ result' = HandleException(result, e)
    /\ pc' = IF ExceptClause(e) = "none" THEN "raised" ELSE "done"

\* process_user_request without the `return result` of line 60
GateReturned_NoEarlyReturn(v) ==
    /\ gateRet' = IF v THEN "true" ELSE "false"
    /\ exc' = exc
    /\ result' = IF v THEN SafetyPassed(result) ELSE SafetyPassed(BlockedResult(result))
    /\ IF genDouble
       THEN pc' = "generator" /\ calls' = calls
       ELSE pc' = "retrieve" /\ calls' = Append(calls, "retrieve")

\* validate_prompt_safety returned v to process_user_request, lines 56-65
GateReturned(v) ==
    /\ gateRet' = IF v THEN "true" ELSE "false"
    /\ exc' = exc
    /\ IF ~v
       THEN /\ result' = BlockedResult(result)
            /\ pc' = "done"
            /\ calls' = calls
       ELSE /\ result' = SafetyPassed(result)
            /\ IF genDouble
               THEN pc' = "generator" /\ calls' = calls
               ELSE pc' = "retrieve" /\ calls' = Append(calls, "retrieve")

\* validate_prompt_safety raised e into process_user_request
GateRaised(e) ==
    /\ gateRet' = "raised"
    /\ calls' = calls
    /\ Caught(e)

\* empty or whitespace-only prompt: the gate answers without a model call
ValidateEmpty ==
    /\ pc = "gate"
    /\ ~gateDouble
    /\ IsBlank(result.user_input)
    /\ GateReturned(FALSE)
    /\ UNCHANGED <<served, gateDouble, genDouble, fault, context_df, prompt,
                   answer, log, label, health, ev>>

\* the gate issues the classification call
ValidateClassify ==
    /\ pc = "gate"
    /\ ~gateDouble
    /\ ~IsBlank(result.user_input)
    /\ calls' = Append(calls, "classify")
    /\ pc' = "classify"
    /\ UNCHANGED <<served, gateDouble, genDouble, result, gateRet, exc, fault,
                   context_df, prompt, answer, log, label, health, ev>>

\* the classification call returns a text
ClassifyReturns(text) ==
    /\ pc = "classify"
    /\ label' = Some(text)
    /\ GateReturned(Verdict(text))
    /\ UNCHANGED <<served, gateDouble, genDouble, fault, context_df, prompt,
                   answer, log, health, ev>>

\* the gate turning a failed classification call into the verdict False
ClassifyRaises_Swallowed(e) ==
    /\ pc = "classify"
    /\ fault' = e
    /\ GateReturned(FALSE)
    /\ UNCHANGED <<served, gateDouble, genDouble, context_df, prompt, answer,
                   log, label, health, ev>>

\* the classification call raises
ClassifyRaises(e) ==
    /\ pc = "classify"
    /\ fault' = e
    /\ GateRaised(SafetyFault(e))
    /\ UNCHANGED <<served, gateDouble, genDouble, context_df, prompt, answer,
                   log, label, health, ev>>

\* a patched validate_prompt_safety returns
GateDoubleReturns(v) ==
    /\ pc = "gate"
    /\ gateDouble
    /\ GateReturned(v)
    /\ UNCHANGED <<served, gateDouble, genDouble, fault, context_df, prompt,
                   answer, log, label, health, ev>>

\* a patched validate_prompt_safety raises
GateDoubleRaises(e) ==
    /\ pc = "gate"
    /\ gateDouble
    /\ fault' = e
    /\ GateRaised(e)
    /\ UNCHANGED <<served, gateDouble, genDouble, context_df, prompt, answer,
                   log, label, health, ev>>

\* generate_assistant_response returned to process_user_request, lines 65-70
GeneratorReturned(response) ==
    /\ result' = SuccessResult(result, response)
    /\ pc' = "done"
    /\ UNCHANGED <<gateRet, exc, calls>>

\* the context store answers: the prompt is built and the generation call
\* is issued (response_generator.py lines 148-154)
RetrieveReturns(df) ==
    /\ pc = "retrieve"
    /\ context_df' = df
    /\ prompt' = build_context_prompt(result.user_input, df)
    /\ calls' = Append(calls, "generate")
    /\ pc' = "generate"
    /\ UNCHANGED <<served, gateDouble, genDouble, result, gateRet, exc, fault,
                   answer, log, label, health, ev>>

\* a store failure answered by generating from an empty context
RetrieveRaises_FallsBack(e) ==
    /\ pc = "retrieve"
    /\ fault' = e
    /\ context_df' = <<>>
    /\ prompt' = build_context_prompt(result.user_input, <<>>)
    /\ calls' = Append(calls, "generate")
    /\ pc' = "generate"
    /\ UNCHANGED <<served, gateDouble, genDouble, result, gateRet, exc, answer,
                   log, label, health, ev>>

\* the context store call raises
RetrieveRaises(e) ==
    /\ pc = "retrieve"
    /\ fault' = e
    /\ Caught(GenerationFault(RetrievalFault(e)))
    /\ UNCHANGED <<served, gateDouble, genDouble, gateRet, calls, context_df,
                   prompt, answer, log, label, health, ev>>

\* the generation call returns a response object
GenerateReturns(resp) ==
    /\ pc = "generate"
    /\ answer' = resp
    /\ IF IsEmptyResponse(resp)
       THEN Caught(GenerationFault(EmptyResponse)) /\ UNCHANGED <<gateRet, calls>>
       ELSE GeneratorReturned(Strip(resp[1]))
    /\ UNCHANGED <<served, gateDouble, genDouble, fault, context_df, prompt,
                   log, label, health, ev>>

\* the generation call raises
GenerateRaises(e) ==
    /\ pc = "generate"
    /\ fault' = e
    /\ Caught(GenerationFault(e))
    /\ UNCHANGED <<served, gateDouble, genDouble, gateRet, calls, context_df,
                   prompt, answer, log, label, health, ev>>

\* a patched generate_assistant_response returns
GeneratorDoubleReturns(text) ==
    /\ pc = "generator"
    /\ answer' = Some(text)
    /\ GeneratorReturned(text)
    /\ UNCHANGED <<served, gateDouble, genDouble, fault, context_df, prompt,
                   log, label, health, ev>>

\* a patched generate_assistant_response raises
GeneratorDoubleRaises(e) ==
    /\ pc = "generator"
    /\ fault' = e
    /\ Caught(e)
    /\ UNCHANGED <<served, gateDouble, genDouble, gateRet, calls, context_df,
                   prompt, answer, log, label, health, ev>>

\* how the request ended: "raised" (nothing was returned), "rejected" (the
\* gate returned false), "gate_fault" (the gate raised), "phase_fault"
\* (retrieval or generation failed after the gate passed) or "responded"
Outcome ==
    IF pc = "raised" THEN "raised"
    ELSE IF gateRet = "false" THEN "rejected"
    ELSE IF gateRet = "raised" THEN "gate_fault"
    ELSE IF exc # NoExc THEN "phase_fault"
    ELSE "responded"

\* the caller takes the result (or the propagated exception); the locals of
\* the finished call are gone
Return ==
    /\ pc \in {"done", "raised"}
    /\ pc' = "idle"
    /\ log' = Append(log, [request_id |-> result.request_id,
                           outcome |-> Outcome,
                           safety_passed |-> result.safety_passed])
    /\ gateDouble' = FALSE
    /\ genDouble' = FALSE
    /\ result' = InitialResult(1, <<>>)
    /\ gateRet' = "none"
    /\ exc' = NoExc
    /\ fault' = NoExc
    /\ calls' = <<>>
    /\ context_df' = <<>>
    /\ prompt' = <<>>
    /\ answer' = None
    /\ label' = None
    /\ UNCHANGED <<served, health, ev>>

Next ==
    \/ \E addr \in 1..MaxAddr, text \in Prompts, gd \in BOOLEAN, nd \in BOOLEAN :
          ProcessRequest(addr, text, gd, nd)
    \/ ValidateEmpty
    \/ ValidateClassify
    \/ \E text \in Labels : ClassifyReturns(text)
    \/ \E e \in Raisable : ClassifyRaises(e)
    \/ \E v \in BOOLEAN : GateDoubleReturns(v)
    \/ \E e \in Raisable : GateDoubleRaises(e)
    \/ \E df \in StoreResults : RetrieveReturns(df)
    \/ \E e \in Raisable : RetrieveRaises(e)
    \/ \E resp \in Responses : GenerateReturns(resp)
    \/ \E e \in Raisable : GenerateRaises(e)
    \/ \E text \in Answers : GeneratorDoubleReturns(text)
    \/ \E e \in Raisable : GeneratorDoubleRaises(e)
    \/ Return

Spec == Init /\ [][Next]_vars

\* ------------------------------------------------------------ health_check
\* the fixed probe of health_check
HealthProbe == Words(<<"test", "message">>)

\* str(type(self.response_generator.bq_client))
BqClientType == <<"<class", Sp, "'google.cloud.bigquery.client.Client'>">>

\* health_status as first built, core_engine.py lines 96-99
InitialHealth == [overall_healthy |-> TRUE, components |-> <<>>]

\* d[key] = value on a dictionary kept as a function
DictSet(d, key, value) ==
    [k \in DOMAIN d \cup {key} |-> IF k = key THEN value ELSE d[k]]

\* the safety validator answered the probe, lines 103-107
SafetyComponentUp(hs, test_result) ==
    [hs EXCEPT !.components =
        DictSet(@, "safety_validator",
                [healthy |-> TRUE, test_result |-> Some(test_result)])]

\* the except branch keeping overall_healthy as it was
SafetyComponentDown_StillHealthy(hs, e) ==
    [hs EXCEPT !.components =
        DictSet(@, "safety_validator", [healthy |-> FALSE, error |-> Str(e)])]

\* the safety validator raised on the probe, lines 108-113
SafetyComponentDown(hs, e) ==
    [hs EXCEPT !.components =
                   DictSet(@, "safety_validator",
                           [healthy |-> FALSE, error |-> Str(e)]),
               !.overall_healthy = FALSE]

\* the response generator entry, lines 116-121
GeneratorComponentUp(hs) ==
    [hs EXCEPT !.components =
        DictSet(@, "response_generator",
                [healthy |-> TRUE, bigquery_client |-> BqClientType])]

\* health_check is entered and calls validate_prompt_safety with the probe;
\* a non-blank probe makes the gate issue its classification call
HealthCheckStart ==
    /\ pc = "idle"
    /\ health.pc = "idle"
    /\ IF IsBlank(HealthProbe)
       THEN health' = [pc |-> "done",
                       status |-> Some(GeneratorComponentUp(
                                         SafetyComponentUp(InitialHealth, FALSE))),
                       calls |-> <<>>]
       ELSE health' = [pc |-> "probe",
                       status |-> Some(InitialHealth),
                       calls |-> <<[kind |-> "classify", prompt |-> HealthProbe]>>]
    /\ UNCHANGED <<pc, served, gateDouble, genDouble, result, gateRet, exc,
                   fault, calls, context_df, prompt, answer, log, label, ev>>

\* the classification call of the probe returns a text; health_check goes on
\* to the response generator entry and returns
HealthProbeReturns(text) ==
    /\ health.pc = "probe"
    /\ health' = [health EXCEPT
                    !.pc = "done",
                    !.status = Some(GeneratorComponentUp(
                                      SafetyComponentUp(health.status[1],
                                                        Verdict(text))))]
    /\ UNCHANGED <<pc, served, gateDouble, genDouble, result, gateRet, exc,
                   fault, calls, context_df, prompt, answer, log, label, ev>>

\* the classification call of the probe raises: the gate raises
\* SafetyValidationError, which health_check catches with `except Exception`
HealthProbeRaises(e) ==
    /\ health.pc = "probe"
    /\ health' =
          IF IsInstance(SafetyFault(e).type, "Exception")
          THEN [health EXCEPT
                  !.pc = "done",
                  !.status = Some(GeneratorComponentUp(
                                    SafetyComponentDown(health.status[1],
                                                        SafetyFault(e))))]
          ELSE [health EXCEPT !.pc = "raised", !.status = None]
    /\ UNCHANGED <<pc, served, gateDouble, genDouble, result, gateRet, exc,
                   fault, calls, context_df, prompt, answer, log, label, ev>>

\* the caller takes the report (or the propagated exception)
HealthReturn ==
    /\ health.pc \in {"done", "raised"}
    /\ health' = HealthIdle
    /\ UNCHANGED <<pc, served, gateDouble, genDouble, result, gateRet, exc,
                   fault, calls, context_df, prompt, answer, log, label, ev>>

\* requests and health checks of one agent, one call at a time
HealthNext ==
    \/ HealthCheckStart
    \/ \E text \in Labels : HealthProbeReturns(text)
    \/ \E e \in Raisable : HealthProbeRaises(e)
    \/ HealthReturn
    \/ (health.pc = "idle" /\ Next)

HealthSpec == Init /\ [][HealthNext]_vars

\* ------------------------------------------------------ response_evaluator
\* Scores are kept as integers: fluency in tenths, semantic similarity in
\* hundredths, every other metric in thousandths.

\* what Python sees in each token of the evaluated texts: its length in
\* characters, the matches of \b\w+\b in its lower-cased form, whether its
\* last character is one of . ! ? and whether its first is in A-Z
TokInfo ==
    Sp :> [len |-> 1, words |-> <<>>, term |-> FALSE, cap |-> FALSE]
    @@ NL :> [len |-> 1, words |-> <<>>, term |-> FALSE, cap |-> FALSE]
    @@ "Snow." :> [len |-> 5, words |-> <<"snow">>, term |-> TRUE, cap |-> TRUE]
    @@ "Department." :>
         [len |-> 11, words |-> <<"department">>, term |-> TRUE, cap |-> TRUE]
    @@ "Services." :>
         [len |-> 9, words |-> <<"services">>, term |-> TRUE, cap |-> TRUE]
    @@ "Available." :>
         [len |-> 10, words |-> <<"available">>, term |-> TRUE, cap |-> TRUE]
    @@ "The" :> [len |-> 3, words |-> <<"the">>, term |-> FALSE, cap |-> TRUE]
    @@ "Alaska" :>
         [len |-> 6, words |-> <<"alaska">>, term |-> FALSE, cap |-> TRUE]
    @@ "Snow" :> [len |-> 4, words |-> <<"snow">>, term |-> FALSE, cap |-> TRUE]
    @@ "Department" :>
         [len |-> 10, words |-> <<"department">>, term |-> FALSE, cap |-> TRUE]
    @@ "provides" :>
         [len |-> 8, words |-> <<"provides">>, term |-> FALSE, cap |-> FALSE]
    @@ "comprehensive" :>
         [len |-> 13, words |-> <<"comprehensive">>, term |-> FALSE, cap |-> FALSE]
    @@ "snow" :>
         [len |-> 4, words |-> <<"snow">>, term |-> FALSE, cap |-> FALSE]
    @@ "removal" :>
         [len |-> 7, words |-> <<"removal">>, term |-> FALSE, cap |-> FALSE]
    @@ "services" :>
         [len |-> 8, words |-> <<"services">>, term |-> FALSE, cap |-> FALSE]
    @@ "throughout" :>
         [len |-> 10, words |-> <<"throughout">>, term |-> FALSE, cap |-> FALSE]
    @@ "the" :> [len |-> 3, words |-> <<"the">>, term |-> FALSE, cap |-> FALSE]
    @@ "state." :>
         [len |-> 6, words |-> <<"state">>, term |-> TRUE, cap |-> FALSE]
    @@ "Contact" :>
         [len |-> 7, words |-> <<"contact">>, term |-> FALSE, cap |-> TRUE]
    @@ "for" :> [len |-> 3, words |-> <<"for">>, term |-> FALSE, cap |-> FALSE]
    @@ "road" :>
         [len |-> 4, words |-> <<"road">>, term |-> FALSE, cap |-> FALSE]
    @@ "issues." :>
         [len |-> 7, words |-> <<"issues">>, term |-> TRUE, cap |-> FALSE]
    @@ "weather" :>
         [len |-> 7, words |-> <<"weather">>, term |-> FALSE, cap |-> FALSE]
    @@ "is" :> [len |-> 2, words |-> <<"is">>, term |-> FALSE, cap |-> FALSE]
    @@ "nice" :>
         [len |-> 4, words |-> <<"nice">>, term |-> FALSE, cap |-> FALSE]
    @@ "today." :>
         [len |-> 6, words |-> <<"today">>, term |-> TRUE, cap |-> FALSE]
    @@ "snow." :>
         [len |-> 5, words |-> <<"snow">>, term |-> TRUE, cap |-> FALSE]
    @@ "Test" :> [len |-> 4, words |-> <<"test">>, term |-> FALSE, cap |-> TRUE]
    @@ "prompt" :>
         [len |-> 6, words |-> <<"prompt">>, term |-> FALSE, cap |-> FALSE]
    @@ "What" :> [len |-> 4, words |-> <<"what">>, term |-> FALSE, cap |-> TRUE]
    @@ "about" :>
         [len |-> 5, words |-> <<"about">>, term |-> FALSE, cap |-> FALSE]
    @@ "unplowed" :>
         [len |-> 8, words |-> <<"unplowed">>, term |-> FALSE, cap |-> FALSE]
    @@ "roads?" :>
         [len |-> 6, words |-> <<"roads">>, term |-> TRUE, cap |-> FALSE]
    @@ "--" :> [len |-> 2, words |-> <<>>, term |-> FALSE, cap |-> FALSE]

LowFluencyText == Words(<<"Snow.", "Department.", "Services.", "Available.">>)

HighFluencyText ==
    Words(<<"The", "Alaska", "Snow", "Department", "provides", "comprehensive",
            "snow", "removal", "services", "throughout", "the", "state.">>)

ReferenceText ==
    Words(<<"Contact", "the", "Alaska", "Snow", "Department", "for", "road",
            "issues.">>)

UnrelatedText == Words(<<"The", "weather", "is", "nice", "today.">>)

\* one sentence of 26 words, all the same
RepeatedText == Words([i \in 1..26 |-> "snow"])

EvalTexts ==
    {<<>>, <<Sp>>, <<"--">>, LowFluencyText, HighFluencyText, ReferenceText,
     UnrelatedText, RepeatedText,
     Words(<<"The", "snow.", "the", "state.">>),
     Words(<<"snow", "snow", "snow">>),
     <<Sp>> \o Words(<<"The", "snow.", "The", "state.">>) \o <<NL>>}

RECURSIVE CharLen(_)
\* len(text)
CharLen(t) == IF t = <<>> THEN 0 ELSE TokInfo[Head(t)].len + CharLen(Tail(t))

\* text.split() without arguments
SplitWords(t) == SelectSeq(t, LAMBDA w : ~IsSpace(w))

Min(a, b) == IF a < b THEN a ELSE b

Max(a, b) == IF a > b THEN a ELSE b

\* round(n / d, k) on scaled integers, n >= 0 and d > 0: nearest, ties to even
RoundDiv(n, d) ==
    LET q == n \div d
        r == n % d
    IN IF 2 * r < d THEN q
       ELSE IF 2 * r > d THEN q + 1
       ELSE IF q % 2 = 0 THEN q ELSE q + 1

\* index of the first non-whitespace token after position i
RunEnd(t, i) == CHOOSE j \in (i + 1)..Len(t) :
                   ~IsSpace(t[j]) /\ \A k \in (i + 1)..(j - 1) : IsSpace(t[k])

\* the regex (?<=[.!?])\s+(?=[A-Z]) matches the whitespace run starting at i
BoundaryAt(t, i) ==
    /\ i > 1
    /\ IsSpace(t[i])
    /\ ~IsSpace(t[i - 1])
    /\ TokInfo[t[i - 1]].term
    /\ \E j \in (i + 1)..Len(t) : ~IsSpace(t[j])
    /\ TokInfo[t[RunEnd(t, i)]].cap

RECURSIVE ReSplit(_)
\* re.split on that regex
ReSplit(t) ==
    LET at == {i \in 1..Len(t) : BoundaryAt(t, i)}
    IN IF at = {} THEN <<t>>
       ELSE LET i == CHOOSE x \in at : \A y \in at : x <= y
            IN <<SubSeq(t, 1, i - 1)>> \o ReSplit(SubSeq(t, RunEnd(t, i), Len(t)))

split_into_sentences(text) ==
    LET sentences == ReSplit(Strip(text))
        kept == SelectSeq(sentences, LAMBDA x : Truthy(Strip(x)))
    IN [i \in 1..Len(kept) |-> Strip(kept[i])]

RECURSIVE tokenize_words(_)
tokenize_words(text) ==
    IF text = <<>> THEN <<>>
    ELSE TokInfo[Head(text)].words \o tokenize_words(Tail(text))

\* set(words)
WordSet(words) == {words[i] : i \in 1..Len(words)}

\* the score in tenths
compute_fluency_score(text) ==
    IF IsBlank(text) THEN 10
    ELSE LET sentences == split_into_sentences(text)
             words == tokenize_words(text)
         IN IF sentences = <<>> \/ words = <<>> THEN 10
            ELSE LET n == Len(words)
                     k == Len(sentences)
                     u == Cardinality(WordSet(words))
                     lengthPenalty == IF n < 5 * k THEN 15
                                      ELSE IF n > 25 * k THEN 10 ELSE 0
                     varietyBonus == IF 2 * u < n THEN 0 - 10
                                     ELSE IF 10 * u > 8 * n THEN 5 ELSE 0
                 IN Max(10, Min(50, 50 - lengthPenalty + varietyBonus))

\* compute_fluency_score is called on a text
CallFluency(text) ==
    /\ ev.op = "none"
    /\ ev' = [op |-> "fluency", text |-> text,
              sentences |-> Len(split_into_sentences(text)),
              words |-> Len(tokenize_words(text)),
              unique |-> Cardinality(WordSet(tokenize_words(text))),
              score |-> compute_fluency_score(text)]
    /\ UNCHANGED <<pc, served, gateDouble, genDouble, result, gateRet, exc,
                   fault, calls, context_df, prompt, answer, log, label, health>>

\* a call that returned v, and a call that raised e
Ok(v) == [raised |-> FALSE, value |-> v, exc |-> NoExc]

Raised(e) == [raised |-> TRUE, value |-> <<>>, exc |-> e]

\* an argument that is a str, and one that is a list of str
StrVal(t) == [isStr |-> TRUE, items |-> t]

ListVal(t) == [isStr |-> FALSE, items |-> t]

\* len(x)
PyLen(v) == IF v.isStr THEN CharLen(v.items) ELSE Len(v.items)

\* x.strip() / x.lower() on an object that is not a str
NoAttribute == Exc("AttributeError", Words(<<"no", "attribute">>))

\* compute_fluency_score on an argument of either type: a non-empty list
\* passes `not text` and fails at text.strip()
FluencyCall(v) ==
    IF v.isStr THEN Ok(compute_fluency_score(v.items))
    ELSE IF v.items = <<>> THEN Ok(10)
    ELSE Raised(NoAttribute)

\* tokenize_words on an argument of either type: text.lower()
TokenizeCall(v) ==
    IF v.isStr THEN Ok(tokenize_words(v.items)) ELSE Raised(NoAttribute)

\* round(cosine_similarity * 5, 2), the cosine in thousandths and the result
\* in hundredths; a failure of the embedding model is absorbed as 0.0
compute_semantic_similarity(emb) ==
    IF emb.raised /\ IsInstance(emb.exc.type, "Exception") THEN Ok(0)
    ELSE IF emb.raised THEN emb
    ELSE Ok(RoundDiv(emb.value * 5, 10))

\* the overlap in thousandths
_compute_word_overlap(reference, prediction) ==
    LET ref == TokenizeCall(reference)
        pred == TokenizeCall(prediction)
    IN IF ref.raised THEN ref
       ELSE IF pred.raised THEN pred
       ELSE LET ref_words == WordSet(ref.value)
                pred_words == WordSet(pred.value)
            IN IF ref_words = {} THEN Ok(0)
               ELSE Ok(RoundDiv(1000 * Cardinality(ref_words \cap pred_words),
                                Cardinality(ref_words)))

\* the default record without its "error" entry
_get_default_metrics_NoFlag(reference, prediction) ==
    [reference |-> reference, prediction |-> prediction,
     rouge1 |-> 0, rouge2 |-> 0, rougeL |-> 0, rougeLsum |-> 0,
     bertscore_precision |-> 0, bertscore_recall |-> 0, bertscore_f1 |-> 0,
     fluency_score |-> 10, semantic_similarity |-> 0, length_ratio |-> 0,
     word_overlap |-> 0]

_get_default_metrics(reference, prediction) ==
    [reference |-> reference, prediction |-> prediction,
     rouge1 |-> 0, rouge2 |-> 0, rougeL |-> 0, rougeLsum |-> 0,
     bertscore_precision |-> 0, bertscore_recall |-> 0, bertscore_f1 |-> 0,
     fluency_score |-> 10, semantic_similarity |-> 0, length_ratio |-> 0,
     word_overlap |-> 0, error |-> TRUE]

\* rouge_result.get("rougeLsum", 0)
GetRougeLsum(rouge_result) ==
    IF "rougeLsum" \in DOMAIN rouge_result THEN rouge_result.rougeLsum ELSE 0

\* the first exception raised inside the try block, NoExc if there is none
MetricsFault(rouge, bert, fluency, semantic, overlap) ==
    IF rouge.raised THEN rouge.exc
    ELSE IF bert.raised THEN bert.exc
    ELSE IF fluency.raised THEN fluency.exc
    ELSE IF semantic.raised THEN semantic.exc
    ELSE IF overlap.raised THEN overlap.exc
    ELSE NoExc

\* rouge, bert, fluency, semantic and overlap are what self.rouge.compute,
\* self.bertscore.compute, compute_fluency_score, compute_semantic_similarity
\* and _compute_word_overlap did when called in this order: returned a value
\* or raised
compute_comprehensive_metrics(reference, prediction, rouge, bert, fluency, semantic, overlap) ==
    LET e == MetricsFault(rouge, bert, fluency, semantic, overlap)
    IN IF e # NoExc /\ IsInstance(e.type, "Exception")
       THEN Ok(_get_default_metrics(reference, prediction))
       ELSE IF e # NoExc THEN Raised(e)
       ELSE Ok([reference |-> reference, prediction |-> prediction,
                rouge1 |-> rouge.value.rouge1,
                rouge2 |-> rouge.value.rouge2,
                rougeL |-> rouge.value.rougeL,
                rougeLsum |-> GetRougeLsum(rouge.value),
                bertscore_precision |-> bert.value.precision[1],
                bertscore_recall |-> bert.value.recall[1],
                bertscore_f1 |-> bert.value.f1[1],
                fluency_score |-> fluency.value,
                semantic_similarity |-> semantic.value,
                length_ratio |-> RoundDiv(1000 * PyLen(prediction),
                                          Max(PyLen(reference), 1)),
                word_overlap |-> overlap.value])

\* pd.DataFrame([metrics]) on what compute_comprehensive_metrics did: one row
evaluate_response_quality(metrics) ==
    IF metrics.raised THEN metrics ELSE Ok(<<metrics.value>>)

\* results of self.rouge.compute, in thousandths
RougeResults ==
    {[rouge1 |-> 1000, rouge2 |-> 1000, rougeL |-> 1000, rougeLsum |-> 1000],
     [rouge1 |-> 462, rouge2 |-> 182, rougeL |-> 308, rougeLsum |-> 308],
     [rouge1 |-> 0, rouge2 |-> 0, rougeL |-> 0]}

\* results of self.bertscore.compute, in thousandths
BertResults ==
    {[precision |-> <<1000>>, recall |-> <<1000>>, f1 |-> <<1000>>],
     [precision |-> <<871>>, recall |-> <<846>>, f1 |-> <<858>>]}

\* cosine similarities of the two embeddings, in thousandths
Cosines == {1000, 612}

\* exceptions the scoring libraries raise
ScorerFaults == {Exc("ValueError", Words(<<"Model", "error">>))}

OutcomesOf(results) == {Ok(r) : r \in results} \cup {Raised(e) : e \in ScorerFaults}

MetricArgs ==
    {StrVal(<<>>), StrVal(ReferenceText), StrVal(UnrelatedText),
     ListVal(<<ReferenceText>>)}

\* compute_comprehensive_metrics and evaluate_response_quality are called on
\* a pair; rouge, bert and emb are what the two scoring libraries and the
\* embedding model do
CallMetrics(reference, prediction, rouge, bert, emb) ==
    /\ ev.op = "none"
    /\ \E fluency \in {FluencyCall(prediction)},
          semantic \in {compute_semantic_similarity(emb)},
          overlap \in {_compute_word_overlap(reference, prediction)} :
        \E metrics \in {compute_comprehensive_metrics(reference, prediction,
                            rouge, bert, fluency, semantic, overlap)} :
            ev' = [op |-> "metrics", reference |-> reference,
                   prediction |-> prediction, rouge |-> rouge, bert |-> bert,
                   emb |-> emb, metrics |-> metrics,
                   frame |-> evaluate_response_quality(metrics)]
    /\ UNCHANGED <<pc, served, gateDouble, genDouble, result, gateRet, exc,
                   fault, calls, context_df, prompt, answer, log, label, health>>

\* ----------------------------------------- safety_validator: the metrics
\* validate_prompt_safety as one call: reply is what the classification call
\* did
validate_prompt_safety(text, reply) ==
    IF IsBlank(text) THEN Ok(FALSE)
    ELSE IF reply.raised /\ IsInstance(reply.exc.type, "Exception")
    THEN Raised(SafetyFault(reply.exc))
    ELSE IF reply.raised THEN reply
    ELSE Ok(Verdict(reply.value))

\* what building the "timestamp" entry raises: safety_validator.py never
\* imports logging, so naming it is a NameError; a logger without handlers or
\* without a formatter fails one step earlier
TimestampFaults ==
    {Exc("NameError", Words(<<"name", "'logging'", "is", "not", "defined">>)),
     Exc("AttributeError", Words(<<"no", "attribute">>))}

\* `len(prompt) if prompt else 0`
LenOrZero(text) == IF Truthy(text) THEN CharLen(text) ELSE 0

\* validated is what self.validate_prompt_safety(prompt) did, stamp what the
\* construction of the timestamp did
get_validation_metrics(text, validated, stamp) ==
    LET e == IF validated.raised THEN validated.exc
             ELSE IF stamp.raised THEN stamp.exc
             ELSE NoExc
    IN IF e # NoExc /\ IsInstance(e.type, "Exception")
       THEN Ok([is_safe |-> FALSE, error |-> Str(e),
                prompt_length |-> LenOrZero(text)])
       ELSE IF e # NoExc THEN Raised(e)
       ELSE Ok([is_safe |-> validated.value,
                prompt_length |-> CharLen(text),
                word_count |-> Len(SplitWords(text)),
                timestamp |-> stamp.value])

\* what the classification call can do
Replies == {Ok(text) : text \in Labels} \cup {Raised(e) : e \in Raisable}

\* get_validation_metrics is called on a prompt, with the validator itself or
\* with validate_prompt_safety patched to return a fixed verdict
CallValidationMetrics(text, validated, stamp) ==
    /\ ev.op = "none"
    /\ ev' = [op |-> "validation_metrics", text |-> text,
              validated |-> validated,
              metrics |-> get_validation_metrics(text, validated, stamp)]
    /\ UNCHANGED <<pc, served, gateDouble, genDouble, result, gateRet, exc,
                   fault, calls, context_df, prompt, answer, log, label, health>>

\* the caller has taken the value of the call
EvalReturn ==
    /\ ev.op # "none"
    /\ ev' = EvIdle
    /\ UNCHANGED <<pc, served, gateDouble, genDouble, result, gateRet, exc,
                   fault, calls, context_df, prompt, answer, log, label, health>>

EvalNext ==
    \/ EvalReturn
    \/ \E text \in EvalTexts : CallFluency(text)
    \/ \E reference \in MetricArgs, prediction \in MetricArgs :
        \E rouge \in OutcomesOf(RougeResults), bert \in OutcomesOf(BertResults),
           emb \in OutcomesOf(Cosines) :
            CallMetrics(reference, prediction, rouge, bert, emb)
    \/ \E text \in Prompts :
        \E validated \in {validate_prompt_safety(text, r) : r \in Replies}
                            \cup {Ok(TRUE), Ok(FALSE)},
           stamp \in {Raised(e) : e \in TimestampFaults} :
            CallValidationMetrics(text, validated, stamp)

EvalSpec == Init /\ [][EvalNext]_vars

\* ------------------------------------------------------------------ claims
ResultFields ==
    {"request_id", "user_input", "response", "success", "error",
     "safety_passed", "context_retrieved"}

\* a result has been returned to the caller of process_user_request
Returned == pc = "done"

\* C1: whatever the gate, the context store and the generation model return
\* or raise (any class derived from Exception), process_user_request never
\* lets an exception reach its caller, and what it returns is a record with
\* exactly the seven result fields.
C1_NeverPropagates ==
    /\ pc # "raised"
    /\ \A i \in 1..Len(log) : log[i].outcome # "raised"
    /\ Returned => DOMAIN result = ResultFields

\* an exception outside the agent's own taxonomy was raised by a
\* collaborator and a result was still returned
C1_Witness ==
    /\ Returned
    /\ fault # NoExc
    /\ exc # NoExc
    /\ ExceptClause(exc) = "unexpected"

\* C2: every returned result has success => (error is None and
\* safety_passed), and not safety_passed => not success.
C2_ResultInvariant ==
    Returned =>
        /\ result.success => (result.error = None /\ result.safety_passed)
        /\ ~result.safety_passed => ~result.success

\* a successful result was returned
C2_Witness == Returned /\ result.success /\ calls = <<"classify", "retrieve", "generate">>

\* C3: retrieval and generation (and the generator as a whole) are only
\* entered after the gate returned true; a request whose gate returned false
\* or raised has issued no retrieval and no generation call.
C3_GateBeforeWork ==
    /\ (\E i \in 1..Len(calls) : calls[i] \in {"retrieve", "generate"})
          => gateRet = "true"
    /\ pc \in {"generator", "retrieve", "generate"} => gateRet = "true"
    /\ answer # None => gateRet = "true"
    /\ gateRet \in {"false", "raised"}
          => \A i \in 1..Len(calls) : calls[i] = "classify"

\* the classifier was asked, the gate said no, and the request ended there
C3_Witness ==
    /\ Returned
    /\ gateRet = "false"
    /\ calls = <<"classify">>

\* C4 as stated: a rejection and a fault never carry the same safety_passed
\* value, whichever component the fault came from.
C4_Original ==
    \A i \in 1..Len(log) : \A j \in 1..Len(log) :
        (log[i].outcome = "rejected"
         /\ log[j].outcome \in {"gate_fault", "phase_fault"})
            => log[i].safety_passed # log[j].safety_passed

\* C4 amended: a rejection (safety_passed false) and a fault raised by
\* retrieval or generation after the gate passed (safety_passed true) never
\* carry the same safety_passed value; a fault raised by the gate itself
\* carries safety_passed false, the same value as a rejection.
C4_Amended ==
    /\ \A i \in 1..Len(log) : \A j \in 1..Len(log) :
          (log[i].outcome = "rejected" /\ log[j].outcome = "phase_fault")
             => log[i].safety_passed # log[j].safety_passed
    /\ \A i \in 1..Len(log) :
          log[i].outcome = "gate_fault" => ~log[i].safety_passed

\* one request was rejected and another failed after the gate had passed
C4_Witness ==
    /\ \E i \in 1..Len(log) : log[i].outcome = "rejected"
    /\ \E j \in 1..Len(log) : log[j].outcome = "phase_fault"

\* C5: when the gate returns false the result is the BLOCKED one: the
\* safety-block message, success, safety_passed and context_retrieved all
\* false, error exactly "Safety validation failed".
C5_Blocked ==
    (Returned /\ gateRet = "false") =>
        /\ result.response = safety_blocked_message
        /\ ~result.success
        /\ ~result.safety_passed
        /\ ~result.context_retrieved
        /\ result.error = Some(<<"Safety", Sp, "validation", Sp, "failed">>)

\* the classifier answered UNSAFE and the result was returned
C5_Witness ==
    /\ Returned
    /\ gateRet = "false"
    /\ ~gateDouble
    /\ Len(calls) = 1

\* C6: when the gate raises SafetyValidationError the result carries the
\* safety-block message, success and safety_passed false, and the text of
\* the raised exception as error; for the real gate that text is
\* "Safety validation error: " followed by the text of the model's fault.
C6_GateFault ==
    (Returned /\ gateRet = "raised" /\ exc.type = "SafetyValidationError") =>
        /\ result.response = safety_blocked_message
        /\ ~result.success
        /\ ~result.safety_passed
        /\ result.error = Some(Str(exc))
        /\ ~gateDouble =>
              Str(exc) = <<"Safety", Sp, "validation", Sp, "error:", Sp>> \o Str(fault)

\* the classification call failed and the result was returned
C6_Witness ==
    /\ Returned
    /\ gateRet = "raised"
    /\ ~gateDouble
    /\ calls = <<"classify">>
    /\ fault.type = "ValueError"

\* C7: after the gate returned true, a RAGRetrievalError or
\* ResponseGenerationError leaving the generator gives the
\* technical-difficulty message, success false, the exception's text as
\* error and safety_passed still true; a failure of the context store
\* arrives as RAGRetrievalError with the text "Failed to retrieve context: "
\* followed by the store's fault text.
C7_PhaseFault ==
    (Returned /\ gateRet = "true" /\ exc # NoExc
       /\ exc.type \in {"RAGRetrievalError", "ResponseGenerationError"}) =>
        /\ result.response = default_error_message
        /\ ~result.success
        /\ result.safety_passed
        /\ result.error = Some(Str(exc))
        /\ (fault # NoExc /\ ~genDouble /\ calls[Len(calls)] = "retrieve") =>
              /\ exc.type = "RAGRetrievalError"
              /\ Str(exc) = <<"Failed", Sp, "to", Sp, "retrieve", Sp, "context:", Sp>>
                               \o Str(fault)

\* the context store failed after the gate passed
C7_Witness ==
    /\ Returned
    /\ gateRet = "true"
    /\ ~genDouble
    /\ fault # NoExc
    /\ calls[Len(calls)] = "retrieve"

\* C8: when the gate returned true and the generator returned a text
\* without raising, the result is the RESPONDED one: that text as response
\* (the trimmed model text for the real generator), success, safety_passed
\* and context_retrieved true, error None.
C8_Responded ==
    (Returned /\ gateRet = "true" /\ exc = NoExc) =>
        /\ answer # None
        /\ result.response = IF genDouble THEN answer[1] ELSE Strip(answer[1])
        /\ result.success
        /\ result.safety_passed
        /\ result.context_retrieved
        /\ result.error = None

\* the model answered with padded text and the result was returned
C8_Witness ==
    /\ Returned
    /\ gateRet = "true"
    /\ exc = NoExc
    /\ ~genDouble
    /\ answer # None
    /\ Strip(answer[1]) # answer[1]

\* C9: a failed result shows the user one of the two fixed messages; the
\* text of the exception (the one a collaborator raised and the one that
\* reached the except clauses) is not part of the response and is part of
\* the error field.
C9_NoLeak ==
    (Returned /\ ~result.success) =>
        /\ result.response \in {safety_blocked_message, default_error_message}
        /\ result.error # None
        /\ exc # NoExc =>
              /\ ~Contains(result.response, Str(exc))
              /\ Contains(result.error[1], Str(exc))
        /\ fault # NoExc =>
              /\ ~Contains(result.response, Str(fault))
              /\ Contains(result.error[1], Str(fault))

\* the generation call failed and the failed result was returned
C9_Witness ==
    /\ Returned
    /\ ~result.success
    /\ fault # NoExc
    /\ calls = <<"classify", "retrieve", "generate">>

\* position of an outbound call in the chain
Rank(c) == CASE c = "classify" -> 1 [] c = "retrieve" -> 2 [] c = "generate" -> 3

\* C10: within one request the outbound calls are issued in the order
\* classify, retrieve, generate, each at most once (so at most three), and
\* once one of them has raised no further outbound call is issued for that
\* request.
C10_SingleChain ==
    /\ [](/\ Len(calls) <= 3
          /\ \A i \in 1..Len(calls) : \A j \in 1..Len(calls) :
                i < j => Rank(calls[i]) < Rank(calls[j]))
    /\ [][(pc # "idle" /\ fault' # NoExc) => calls' = calls]_vars

\* the context store failed and the request ended with two calls issued
C10_Witness ==
    /\ Returned
    /\ fault # NoExc
    /\ calls = <<"classify", "retrieve">>

\* every token of t is whitespace (the empty text included)
AllSpace(t) == \A i \in 1..Len(t) : IsSpace(t[i])

\* C11: for an empty or whitespace-only prompt validate_prompt_safety
\* returns False and no classification call is issued.
C11_BlankPrompt ==
    (~gateDouble /\ AllSpace(result.user_input) /\ pc \notin {"idle", "gate"}) =>
        /\ gateRet = "false"
        /\ calls = <<>>
        /\ label = None
        /\ pc = "done"

\* a whitespace-only prompt went through the real gate
C11_Witness ==
    /\ Returned
    /\ ~gateDouble
    /\ result.user_input = <<Sp, Sp>>

\* C12: for a non-empty prompt the gate returns True only when the
\* classifier's text, trimmed and upper-cased, is exactly "SAFE"; for any
\* other returned text it returns False and does not raise.
C12_OnlyExactSafe ==
    (~gateDouble /\ label # None) =>
        /\ gateRet \in {"true", "false"}
        /\ gateRet = "true" <=> Upper(Strip(label[1])) = <<"SAFE">>
        /\ label[1] \in {<<"UNSAFE">>, <<"MAYBE">>, <<>>, <<"SAFE", Sp, "UNSAFE">>}
              => gateRet = "false"

\* the classifier answered "SAFE UNSAFE" and the gate said no
C12_Witness ==
    /\ Returned
    /\ ~gateDouble
    /\ label = Some(<<"SAFE", Sp, "UNSAFE">>)
    /\ gateRet = "false"

\* C13: when the classification call raises, validate_prompt_safety raises
\* SafetyValidationError; the fault never becomes the verdict False.
C13_FaultIsNotVerdict ==
    (~gateDouble /\ calls = <<"classify">> /\ label = None /\ fault # NoExc
       /\ pc # "idle") =>
        /\ gateRet = "raised"
        /\ exc.type = "SafetyValidationError"

\* the classification call raised Exception("Model error")
C13_Witness ==
    /\ Returned
    /\ ~gateDouble
    /\ calls = <<"classify">>
    /\ label = None
    /\ fault = Exc("Exception", <<"Model", Sp, "error">>)

\* the generation call of the real generator has ended
GenerationEnded ==
    /\ Returned
    /\ ~genDouble
    /\ calls # <<>>
    /\ calls[Len(calls)] = "generate"

\* C14: generate_assistant_response raises ResponseGenerationError whenever
\* the generation call raises or the model returns no text, empty text or
\* whitespace-only text; it never returns an empty string, so no successful
\* result carries an empty response.
C14_NeverEmpty ==
    /\ (GenerationEnded
        /\ (IF answer = None THEN TRUE ELSE AllSpace(answer[1])))
          => exc.type = "ResponseGenerationError"
    /\ (GenerationEnded /\ result.success) => result.response # <<>>

\* the real generator has built its prompt for this request
PromptBuilt ==
    /\ pc # "idle"
    /\ \E i \in 1..Len(calls) : calls[i] = "generate"

FallbackLead == Words(<<"No", "specific", "FAQ", "information", "found">>)

ContextHeader == <<"===", Sp, "CONTEXT", Sp, "===">>

QuestionHeader == <<"===", Sp, "USER", Sp, "QUESTION", Sp, "===">>

\* number of occurrences of a token
Count(t, tok) == Cardinality({i \in 1..Len(t) : t[i] = tok})

\* first position at which needle starts in hay (0 when it does not occur)
Pos(hay, needle) ==
    LET at == {i \in 1..(Len(hay) - Len(needle) + 1) :
                  \A j \in 1..Len(needle) : hay[i + j - 1] = needle[j]}
    IN IF at = {} THEN 0 ELSE CHOOSE i \in at : \A k \in at : i <= k

\* the Q:/A: block of one retrieved row
QABlock(r) == <<"Q:", Sp>> \o r.question \o <<NL, "A:", Sp>> \o r.answer

\* C15: the prompt is the fallback template (no-information statement, the
\* user question verbatim, no CONTEXT section) exactly when no row was
\* retrieved; otherwise it has a CONTEXT section with one Q:/A: block per
\* row, in the order the store returned the rows, followed by the USER
\* QUESTION section holding the user question.
C15_PromptShape ==
    PromptBuilt =>
        /\ Len(context_df) = 0 <=> Contains(prompt, FallbackLead)
        /\ Len(context_df) = 0 =>
              /\ Contains(prompt, <<"question:", Sp>> \o result.user_input \o <<NL, NL>>)
              /\ ~Contains(prompt, ContextHeader)
              /\ Count(prompt, "Q:") = 0
        /\ Len(context_df) > 0 =>
              /\ Count(prompt, "Q:") = Len(context_df)
              /\ Count(prompt, "A:") = Len(context_df)
              /\ Pos(prompt, ContextHeader) > 0
              /\ Pos(prompt, ContextHeader) < Pos(prompt, QABlock(context_df[1]))
              /\ \A i \in 1..Len(context_df) : Pos(prompt, QABlock(context_df[i])) > 0
              /\ \A i \in 1..(Len(context_df) - 1) :
                    Pos(prompt, QABlock(context_df[i]))
                       < Pos(prompt, QABlock(context_df[i + 1]))
              /\ Pos(prompt, QABlock(context_df[Len(context_df)]))
                    < Pos(prompt, QuestionHeader)
              /\ Contains(prompt, QuestionHeader \o <<NL>> \o result.user_input
                                     \o <<NL, NL>>)

\* two rows were retrieved and the prompt was built from them
C15_Witness ==
    /\ pc = "generate"
    /\ Len(context_df) = 2
    /\ context_df[1].distance < context_df[2].distance

\* everything a request of process_user_request works on
pipelineVars ==
    <<pc, served, gateDouble, genDouble, result, gateRet, exc, fault, calls,
      context_df, prompt, answer, log, label>>

\* C16: health_check never raises; it issues exactly one classification
\* call, for the fixed probe, and no retrieval or generation call; its
\* report always has the safety_validator and response_generator entries;
\* overall_healthy is false exactly when an entry is unhealthy; and no step
\* of it changes the state requests work on.
C16_HealthCheck ==
    /\ [](health.pc # "raised")
    /\ [](health.pc = "done" =>
            LET hs == health.status[1] IN
            /\ health.calls = <<[kind |-> "classify", prompt |-> HealthProbe]>>
            /\ DOMAIN hs.components = {"safety_validator", "response_generator"}
            /\ ~hs.overall_healthy
                  <=> \E c \in DOMAIN hs.components : ~hs.components[c].healthy)
    /\ [][health' # health => UNCHANGED pipelineVars]_vars

\* a health check ended with the safety validator reported down
C16_Witness ==
    /\ health.pc = "done"
    /\ ~health.status[1].components["safety_validator"].healthy
    /\ Len(log) > 0

\* C17: over the requests of one process lifetime, no two returned results
\* carry the same request_id, also when the same text object is submitted
\* again.
C17_UniqueIds ==
    \A i \in 1..Len(log) : \A j \in 1..Len(log) :
        i # j => log[i].request_id # log[j].request_id

\* the metric entries of an evaluation record
MetricFields ==
    {"rouge1", "rouge2", "rougeL", "rougeLsum", "bertscore_precision",
     "bertscore_recall", "bertscore_f1", "semantic_similarity",
     "length_ratio", "word_overlap"}

\* one of the scorers named by the contract failed on this pair: lexical
\* overlap (ROUGE), embedding-similarity (BERTScore), fluency, word overlap
ScorerFailed ==
    \/ ev.rouge.raised
    \/ ev.bert.raised
    \/ FluencyCall(ev.prediction).raised
    \/ _compute_word_overlap(ev.reference, ev.prediction).raised

\* C18: compute_comprehensive_metrics, and evaluate_response_quality built on
\* it, never raise; when a scorer fails the record returned is the default
\* one, every metric 0.0 except fluency_score 1.0, with the error flag set;
\* a record returned without a scorer failure carries no error flag.
C18_NeverRaises ==
    ev.op = "metrics" =>
        /\ ~ev.metrics.raised
        /\ ~ev.frame.raised
        /\ ev.frame.value = <<ev.metrics.value>>
        /\ ScorerFailed =>
            /\ \A f \in MetricFields : ev.metrics.value[f] = 0
            /\ ev.metrics.value.fluency_score = 10
            /\ "error" \in DOMAIN ev.metrics.value
            /\ ev.metrics.value.error = TRUE
        /\ ~ScorerFailed => "error" \notin DOMAIN ev.metrics.value

\* both libraries returned and the fluency scorer failed on a prediction that
\* is not a str: the default record came back
C18_Witness ==
    /\ ev.op = "metrics"
    /\ ~ev.rouge.raised
    /\ ~ev.bert.raised
    /\ FluencyCall(ev.prediction).raised
    /\ ~ev.metrics.raised
    /\ "error" \in DOMAIN ev.metrics.value

\* C19: whenever validate_prompt_safety(prompt) returns a verdict without
\* raising, the record of get_validation_metrics(prompt) contains is_safe
\* equal to that verdict, prompt_length equal to the length of the prompt and
\* word_count equal to its number of whitespace-separated words.
C19_ValidationMetrics ==
    (ev.op = "validation_metrics" /\ ~ev.validated.raised) =>
        /\ ~ev.metrics.raised
        /\ "is_safe" \in DOMAIN ev.metrics.value
        /\ ev.metrics.value.is_safe = ev.validated.value
        /\ "prompt_length" \in DOMAIN ev.metrics.value
        /\ ev.metrics.value.prompt_length = CharLen(ev.text)
        /\ "word_count" \in DOMAIN ev.metrics.value
        /\ ev.metrics.value.word_count = Len(SplitWords(ev.text))

\* C20: compute_fluency_score is within [1.0, 5.0] for every text, at most
\* 3.0 for the text of four one-word sentences and at least 4.0 for a single
\* well-formed sentence of 12 words, 10 of them distinct.
C20_Fluency ==
    ev.op = "fluency" =>
        /\ ev.score >= 10
        /\ ev.score <= 50
        /\ ev.text = LowFluencyText => ev.score <= 30
        /\ ev.text = HighFluencyText => ev.score >= 40

\* the real generator's retrieval has returned for this request
RetrievalSucceeded ==
    /\ ~genDouble
    /\ calls # <<>>
    /\ calls[Len(calls)] = "generate"

\* C21: in every result returned by process_user_request context_retrieved
\* equals success: true on the success path also when the context store
\* returned no entries, false whenever the request failed, also when
\* retrieval had succeeded and only the generation call failed.
C21_ContextFlag ==
    Returned =>
        /\ result.context_retrieved = result.success
        /\ (result.success /\ RetrievalSucceeded /\ context_df = <<>>)
              => result.context_retrieved
        /\ ~result.success => ~result.context_retrieved
        /\ (RetrievalSucceeded /\ exc.type = "ResponseGenerationError")
              => ~result.context_retrieved

\* the store returned entries, the generation call then failed and the result
\* was returned
C21_Witness ==
    /\ Returned
    /\ RetrievalSucceeded
    /\ context_df # <<>>
    /\ fault # NoExc
    /\ exc.type = "ResponseGenerationError"
    /\ ~result.success

\* a request succeeded although the store returned no entries
C21_ZeroEntries ==
    /\ Returned
    /\ RetrievalSucceeded
    /\ context_df = <<>>
    /\ result.success

====
